---- MODULE Spec2Model ----
(***************************************************************************)
(* State-machine model of the AI-Data-Platform ingestion and KPI core:     *)
(* the CSV validator, the metadata transformer, the database loader, the   *)
(* ETL orchestrator and the KPI engine.  Money is kept in cents, CAC and   *)
(* ROAS in units of 0.0001, dates as day numbers, timestamps as a clock.   *)
(***************************************************************************)
EXTENDS Bags, FiniteSets, Integers, Sequences, TLC

\* ------------------------------------------------------------------------
\* Bounds of the model
\* ------------------------------------------------------------------------
MaxClock == 2
MaxRaw == 3

\* ------------------------------------------------------------------------
\* Values
\* ------------------------------------------------------------------------
\* Python's None
None == "None"

\* date.today(); day numbers 1..Today are past or present, Today+1 is future
Today == 2

VALID_PLATFORMS == {"Meta", "Google"}
VALID_DEVICES == {"Desktop", "Mobile"}
VALID_COUNTRIES == {"US", "CA", "BR", "MX"}

\* Decimal('1000000') in cents
SpendCeiling == 100000000

\* caller-supplied batch ids; generated ids are 100 + timestamp
CallerBatchIds == {1}

generate_batch_id(now) == 100 + now

\* ------------------------------------------------------------------------
\* CSV rows and files
\* ------------------------------------------------------------------------
\* kind: "data" (every field parses), "blank" (every field empty),
\*       "malformed" (a date or number does not parse)
Row(kind, d, p, a, dev, sp, cl, im, cv) ==
    [kind |-> kind, date |-> d, platform |-> p, account |-> a,
     campaign |-> "Prospecting", country |-> "US", device |-> dev,
     spend |-> sp, clicks |-> cl, impressions |-> im, conversions |-> cv]

rowMetaA == Row("data", 1, "Meta", "AcctA", "Desktop", 10000, 5, 100, 2)
rowMetaB == Row("data", 1, "Meta", "AcctB", "Desktop", 5000, 5, 100, 0)
rowGoogle == Row("data", 2, "Google", "AcctA", "Desktop", 0, 0, 0, 0)
rowNegSpend == Row("data", 2, "Meta", "AcctA", "Desktop", -500, 0, 10, 0)
rowClicks == Row("data", 1, "Meta", "AcctA", "Desktop", 10000, 150, 100, 0)
rowFuture == Row("data", 3, "Google", "AcctA", "Desktop", 10000, 5, 100, 1)
rowDevice == Row("data", 1, "Meta", "AcctA", "Tablet", 10000, 5, 100, 1)
rowBlank == Row("blank", 0, "", "", "", 0, 0, 0, 0)
rowMalformed == Row("malformed", 0, "Meta", "AcctA", "Desktop", 0, 0, 0, 0)

\* status: what Path.exists / is_file / stat().st_size see
File(status, name, header_ok, rows) ==
    [status |-> status, name |-> name, header_ok |-> header_ok, rows |-> rows]

Files ==
    { File("missing", "gone.csv", TRUE, <<>>),
      File("not_file", "dir", TRUE, <<>>),
      File("empty", "zero.csv", TRUE, <<>>),
      File("ok", "nohdr.csv", FALSE, <<rowMetaA>>),
      File("ok", "one.csv", TRUE, <<rowMetaA>>),
      File("ok", "two.csv", TRUE, <<rowMetaA, rowMetaB>>),
      File("ok", "goog.csv", TRUE, <<rowGoogle>>),
      File("ok", "half.csv", TRUE, <<rowClicks, rowMetaB>>),
      File("ok", "gap.csv", TRUE, <<rowMetaA, rowBlank>>),
      File("ok", "bad.csv", TRUE, <<rowMalformed, rowFuture, rowDevice>>),
      File("ok", "neg.csv", TRUE, <<rowNegSpend>>),
      File("ok", "mix.csv", TRUE, <<rowMetaA, rowNegSpend>>) }

\* ------------------------------------------------------------------------
\* models/validation.py
\* ------------------------------------------------------------------------
AdsSpendRecord(row) ==
    [date |-> row.date, platform |-> row.platform, account |-> row.account,
     campaign |-> row.campaign, country |-> row.country, device |-> row.device,
     spend |-> row.spend, clicks |-> row.clicks,
     impressions |-> row.impressions, conversions |-> row.conversions]

\* variant: the date rule is tested before the clicks rule
_validate_business_rules_date_first(record) ==
    IF record.platform \notin VALID_PLATFORMS THEN "Invalid platform"
    ELSE IF record.device \notin VALID_DEVICES THEN "Invalid device"
    ELSE IF record.country \notin VALID_COUNTRIES THEN "Invalid country"
    ELSE IF record.date > Today THEN "Date cannot be in the future"
    ELSE IF record.clicks > record.impressions
         THEN "Clicks cannot exceed impressions"
    ELSE IF record.spend > SpendCeiling
         THEN "Spend amount seems unreasonably high"
    ELSE IF record.impressions > 0
            /\ record.clicks * 100 > 50 * record.impressions
         THEN "Click rate seems unreasonably high"
    ELSE IF record.clicks > 0
            /\ record.conversions * 100 > 50 * record.clicks
         THEN "Conversion rate seems unreasonably high"
    ELSE None

\* the first violated rule, or None
_validate_business_rules(record) ==
    IF record.platform \notin VALID_PLATFORMS THEN "Invalid platform"
    ELSE IF record.device \notin VALID_DEVICES THEN "Invalid device"
    ELSE IF record.country \notin VALID_COUNTRIES THEN "Invalid country"
    ELSE IF record.clicks > record.impressions
         THEN "Clicks cannot exceed impressions"
    ELSE IF record.date > Today THEN "Date cannot be in the future"
    ELSE IF record.spend > SpendCeiling
         THEN "Spend amount seems unreasonably high"
    ELSE IF record.impressions > 0
            /\ record.clicks * 100 > 50 * record.impressions
         THEN "Click rate seems unreasonably high"
    ELSE IF record.clicks > 0
            /\ record.conversions * 100 > 50 * record.clicks
         THEN "Conversion rate seems unreasonably high"
    ELSE None

\* (validated_record, error_message); kind "missing": a field is absent or
\* null and pydantic raises ValidationError; kind "malformed": a date or a
\* number does not parse and _preprocess_record_data raises ValueError
validate_ads_spend_record(row) ==
    IF row.kind = "missing"
    THEN [record |-> None, error |-> "Validation error"]
    ELSE IF row.kind # "data"
    THEN [record |-> None, error |-> "Unexpected validation error"]
    ELSE LET rec == AdsSpendRecord(row)
             err == _validate_business_rules(rec)
         IN IF err # None THEN [record |-> None, error |-> err]
            ELSE [record |-> rec, error |-> None]

ValidationResult ==
    [valid_records |-> <<>>, invalid_records |-> <<>>, errors |-> <<>>,
     warnings |-> <<>>, total_processed |-> 0]

is_valid(vr) == Len(vr.errors) = 0

\* variant: total_processed counts the valid rows only
ValidateRow_count_valid_only(vr, row, n) ==
    IF row.kind = "blank"
    THEN [vr EXCEPT !.warnings = Append(@, n)]
    ELSE LET v == validate_ads_spend_record(row)
         IN IF v.error = None
            THEN [vr EXCEPT !.valid_records = Append(@, v.record),
                            !.total_processed = @ + 1]
            ELSE [vr EXCEPT
                     !.errors = Append(@, [row |-> n, msg |-> v.error]),
                     !.invalid_records = Append(@, [row |-> n, msg |-> v.error])]

\* variant: after the first error no further row is validated
ValidateRow_abort(vr, row, n) ==
    IF vr.errors # <<>> THEN vr
    ELSE LET counted == [vr EXCEPT !.total_processed = @ + 1]
         IN IF row.kind = "blank"
            THEN [counted EXCEPT !.warnings = Append(@, n)]
            ELSE LET v == validate_ads_spend_record(row)
                 IN IF v.error = None
                    THEN [counted EXCEPT !.valid_records = Append(@, v.record)]
                    ELSE [counted EXCEPT
                             !.errors = Append(@, [row |-> n, msg |-> v.error]),
                             !.invalid_records =
                                 Append(@, [row |-> n, msg |-> v.error])]

\* one iteration of the row loop: row number n = index + 1 (header is row 1)
ValidateRow(vr, row, n) ==
    LET counted == [vr EXCEPT !.total_processed = @ + 1]
    IN IF row.kind = "blank"
       THEN [counted EXCEPT !.warnings = Append(@, n)]
       ELSE LET v == validate_ads_spend_record(row)
            IN IF v.error = None
               THEN [counted EXCEPT !.valid_records = Append(@, v.record)]
               ELSE [counted EXCEPT
                        !.errors = Append(@, [row |-> n, msg |-> v.error]),
                        !.invalid_records = Append(@, [row |-> n, msg |-> v.error])]

RECURSIVE ValidateRows(_, _, _)
ValidateRows(vr, rows, i) ==
    IF i > Len(rows) THEN vr
    ELSE ValidateRows(ValidateRow(vr, rows[i], i + 1), rows, i + 1)

validate_csv_file(file) ==
    IF file.status = "missing"
    THEN [ValidationResult EXCEPT
            !.errors = <<[row |-> 0, msg |-> "File not found"]>>]
    ELSE IF ~file.header_ok
    THEN [ValidationResult EXCEPT
            !.errors = <<[row |-> 0, msg |-> "Missing required columns"]>>]
    ELSE ValidateRows(ValidationResult, file.rows, 1)

\* ------------------------------------------------------------------------
\* ingestion/transformations.py
\* ------------------------------------------------------------------------
\* variant: the transformer ignores the pipeline's batch id and makes its own
DataTransformer_own_batch(file, batch_id, now) ==
    [source_file_name |-> file.name, batch_id |-> generate_batch_id(now),
     load_date |-> now]

DataTransformer(file, batch_id, now) ==
    [source_file_name |-> file.name, batch_id |-> batch_id, load_date |-> now]

add_metadata(t, record) ==
    [date |-> record.date, platform |-> record.platform,
     account |-> record.account, campaign |-> record.campaign,
     country |-> record.country, device |-> record.device,
     spend |-> record.spend, clicks |-> record.clicks,
     impressions |-> record.impressions, conversions |-> record.conversions,
     load_date |-> t.load_date, source_file_name |-> t.source_file_name,
     batch_id |-> t.batch_id]

transform_records(t, records) ==
    [i \in 1..Len(records) |-> add_metadata(t, records[i])]

\* ------------------------------------------------------------------------
\* ingestion/database_loader.py and the raw_ads_spend table
\* ------------------------------------------------------------------------
\* A spend that float() refuses (a Decimal signalling NaN): the record cannot
\* be turned into an insert parameter tuple.
UnpreparableSpend == -999999999

Preparable(record) == record.spend # UnpreparableSpend

\* The table is "absent", "strict" (created by SchemaManager, with CHECK
\* constraints) or "plain" (created by the loader, NOT NULL only).
StoreAccepts(table, r) ==
    \/ table = "plain"
    \/ /\ table = "strict"
       /\ r.spend >= 0 /\ r.clicks >= 0 /\ r.impressions >= 0
       /\ r.conversions >= 0 /\ r.clicks <= r.impressions
       /\ r.platform \in VALID_PLATFORMS /\ r.device \in VALID_DEVICES
       /\ r.country \in VALID_COUNTRIES

\* CREATE TABLE IF NOT EXISTS without the CHECK constraints
ensure_tables_exist(table) == IF table = "absent" THEN "plain" ELSE table

BagAdd(b, r) == b (+) SetToBag({r})

RECURSIVE BagOfSeq(_)
BagOfSeq(seq) ==
    IF seq = <<>> THEN EmptyBag ELSE BagAdd(BagOfSeq(Tail(seq)), Head(seq))

\* SELECT COUNT(*) FROM raw_ads_spend WHERE batch_id = ?
CountBatch(rawS, batch_id) ==
    BagCardinality([r \in {x \in DOMAIN rawS : x.batch_id = batch_id}
                        |-> rawS[r]])

\* index of the first parameter tuple the store rejects, 0 when none
FirstRejected(table, params) ==
    LET bad == {i \in 1..Len(params) : ~StoreAccepts(table, params[i])}
    IN IF bad = {} THEN 0 ELSE CHOOSE i \in bad : \A j \in bad : i <= j

\* one conn.execute per parameter tuple, continuing past failures
RECURSIVE InsertLoop(_, _, _, _)
InsertLoop(acc, table, params, i) ==
    IF i > Len(params) THEN acc
    ELSE IF StoreAccepts(table, params[i])
    THEN InsertLoop([acc EXCEPT !.raw = BagAdd(@, params[i]),
                                !.successful = @ + 1],
                    table, params, i + 1)
    ELSE InsertLoop([acc EXCEPT !.failed = @ + 1,
                                !.errors = Append(@, [phase |-> "insert",
                                                      record |-> i])],
                    table, params, i + 1)

\* variant: the loop breaks at the first failing record instead of continuing
_insert_individually_break(rawS, table, params) ==
    LET k == FirstRejected(table, params)
    IN IF k = 0
       THEN [raw |-> rawS (+) BagOfSeq(params), successful |-> Len(params),
             failed |-> 0, errors |-> <<>>]
       ELSE [raw |-> rawS (+) BagOfSeq(SubSeq(params, 1, k - 1)),
             successful |-> k - 1, failed |-> 1,
             errors |-> <<[phase |-> "insert", record |-> k]>>]

_insert_individually(rawS, table, params) ==
    InsertLoop([raw |-> rawS, successful |-> 0, failed |-> 0, errors |-> <<>>],
               table, params, 1)

\* conn.executemany: the statement runs once per parameter tuple and stops at
\* the first failure.  The loader opens no transaction, so with the driver in
\* autocommit the tuples before the failing one stay in the table; rollback
\* (autocommit = FALSE) is kept as the other outcome a driver can produce.
executemany(rawS, table, params, autocommit) ==
    LET k == FirstRejected(table, params)
    IN IF k = 0
       THEN [raw |-> rawS (+) BagOfSeq(params), ok |-> TRUE]
       ELSE [raw |-> IF autocommit
                     THEN rawS (+) BagOfSeq(SubSeq(params, 1, k - 1))
                     ELSE rawS,
             ok |-> FALSE]

PrepareErrors(records) ==
    LET bad == SelectSeq(records, LAMBDA r : ~Preparable(r))
    IN [i \in 1..Len(bad) |-> [phase |-> "prepare", record |-> 0]]

\* (successful_inserts, failed_inserts, error_messages) and the store after
insert_records(rawS, table, records, autocommit) ==
    IF records = <<>>
    THEN [raw |-> rawS, table |-> table, successful |-> 0, failed |-> 0,
          errors |-> <<>>]
    ELSE
    LET tbl == ensure_tables_exist(table)
        insert_params == SelectSeq(records, Preparable)
        prep_errors == PrepareErrors(records)
        prep_failed == Len(prep_errors)
    IN IF insert_params = <<>>
       THEN [raw |-> rawS, table |-> tbl, successful |-> 0,
             failed |-> prep_failed, errors |-> prep_errors]
       ELSE LET batch == executemany(rawS, tbl, insert_params, autocommit)
            IN IF batch.ok
               THEN [raw |-> batch.raw, table |-> tbl,
                     successful |-> Len(insert_params),
                     failed |-> prep_failed, errors |-> prep_errors]
               ELSE LET ind == _insert_individually(batch.raw, tbl,
                                                    insert_params)
                    IN [raw |-> ind.raw, table |-> tbl,
                        successful |-> ind.successful,
                        failed |-> prep_failed + ind.failed,
                        errors |-> prep_errors \o ind.errors]

\* variant: the count is compared with 1 instead of 0
check_batch_exists_above_one(rawS, table, batch_id, query_raises) ==
    IF table = "absent" \/ query_raises THEN FALSE
    ELSE CountBatch(rawS, batch_id) > 1

\* SELECT COUNT(*) ... WHERE batch_id = ?; any exception gives False
check_batch_exists(rawS, table, batch_id, query_raises) ==
    IF table = "absent" \/ query_raises THEN FALSE
    ELSE CountBatch(rawS, batch_id) > 0

\* the rows of SELECT ... WHERE batch_id = ? GROUP BY batch_id,
\* source_file_name: one per source file the batch was loaded from
BatchInfoRows(rawS, batch_id) ==
    LET mine == {r \in DOMAIN rawS : r.batch_id = batch_id}
        InFile(f) == {r \in mine : r.source_file_name = f}
        Least(S) == CHOOSE x \in S : \A y \in S : x <= y
        Most(S) == CHOOSE x \in S : \A y \in S : x >= y
    IN { [batch_id |-> batch_id,
          source_file_name |-> f,
          first_load_date |-> Least({r.load_date : r \in InFile(f)}),
          last_load_date |-> Most({r.load_date : r \in InFile(f)}),
          record_count |-> BagCardinality([r \in InFile(f) |-> rawS[r]]),
          earliest_data_date |-> Least({r.date : r \in InFile(f)}),
          latest_data_date |-> Most({r.date : r \in InFile(f)})]
         : f \in {r.source_file_name : r \in mine} }

\* what get_batch_info can return: fetchone() takes the first row of a query
\* without ORDER BY, so any of the groups; None when there is no row or the
\* query raises
get_batch_info(rawS, table, batch_id) ==
    IF table = "absent" \/ BatchInfoRows(rawS, batch_id) = {}
    THEN {[found |-> FALSE]}
    ELSE {[found |-> TRUE, info |-> row] : row \in BatchInfoRows(rawS, batch_id)}

\* variant: DELETE without the WHERE clause
RemoveBatch_every_row(rawS, batch_id) == EmptyBag

\* the rows left after DELETE ... WHERE batch_id = ?
RemoveBatch(rawS, batch_id) ==
    [r \in {x \in DOMAIN rawS : x.batch_id # batch_id} |-> rawS[r]]

delete_batch(rawS, table, batch_id) ==
    IF table = "absent"
    THEN [raw |-> rawS, count |-> 0, raised |-> TRUE]
    ELSE IF CountBatch(rawS, batch_id) = 0
    THEN [raw |-> rawS, count |-> 0, raised |-> FALSE]
    ELSE [raw |-> RemoveBatch(rawS, batch_id),
          count |-> CountBatch(rawS, batch_id), raised |-> FALSE]

\* ------------------------------------------------------------------------
\* ingestion/etl_pipeline.py
\* ------------------------------------------------------------------------
\* end_time of a result that was never finished
NoTime == 0

\* batch_id: Optional[str] = None
NoBatch == 0

ETLPipelineResult(batch_id, source_file, now) ==
    [batch_id |-> batch_id, source_file |-> source_file,
     start_time |-> now, end_time |-> NoTime,
     total_records_read |-> 0, valid_records |-> 0, invalid_records |-> 0,
     records_inserted |-> 0, records_failed |-> 0,
     validation_errors |-> <<>>, insertion_errors |-> <<>>,
     success |-> FALSE, error_message |-> None]

\* variant: the is_file test is missing
validate_prerequisites_no_is_file(file) ==
    IF file.status = "missing" THEN "CSV file not found"
    ELSE IF file.status = "empty" THEN "CSV file is empty"
    ELSE None

\* variant: the st_size == 0 test is missing
validate_prerequisites_no_size(file) ==
    IF file.status = "missing" THEN "CSV file not found"
    ELSE IF file.status = "not_file" THEN "Path is not a file"
    ELSE None

\* the message of the exception raised, or None
validate_prerequisites(file) ==
    IF file.status = "missing" THEN "CSV file not found"
    ELSE IF file.status = "not_file" THEN "Path is not a file"
    ELSE IF file.status = "empty" THEN "CSV file is empty"
    ELSE None

\* variant: <= in place of <
BelowThreshold_inclusive(result, validation_threshold) ==
    IF result.total_records_read > 0
    THEN result.valid_records * 100
            <= validation_threshold * result.total_records_read
    ELSE 0 <= validation_threshold

\* result.validation_success_rate < validation_threshold, the rate being
\* valid / total * 100, and 0 when nothing was read
BelowThreshold(result, validation_threshold) ==
    IF result.total_records_read > 0
    THEN result.valid_records * 100
            < validation_threshold * result.total_records_read
    ELSE 0 < validation_threshold

\* variant: any insertion failure fails the run
DetermineSuccess_strict(result) ==
    IF result.records_inserted > 0 /\ result.records_failed = 0
    THEN [result EXCEPT !.success = TRUE]
    ELSE IF result.records_inserted > 0
    THEN [result EXCEPT !.success = FALSE,
                        !.error_message = "Completed with insertion failures"]
    ELSE [result EXCEPT !.success = FALSE,
                        !.error_message = "No records were successfully inserted"]

\* "Determine overall success" from the loader's counts
DetermineSuccess(result) ==
    IF result.records_inserted > 0 /\ result.records_failed = 0
    THEN [result EXCEPT !.success = TRUE]
    ELSE IF result.records_inserted > 0
    THEN [result EXCEPT !.success = TRUE,
                        !.error_message = "Completed with insertion failures"]
    ELSE [result EXCEPT !.success = FALSE,
                        !.error_message = "No records were successfully inserted"]

\* except Exception as e: success = False, error_message = str(e)
Caught(result, message) ==
    [result EXCEPT !.success = FALSE, !.error_message = message]

\* variant: no finally clause, end_time is set on no path
Outcome_no_finally(rawS, table, result, steps, now) ==
    [raw |-> rawS, table |-> table, result |-> result, steps |-> steps]

\* what one execution of run leaves behind; finally: sets end_time
Outcome(rawS, table, result, steps, now) ==
    [raw |-> rawS, table |-> table,
     result |-> [result EXCEPT !.end_time = now], steps |-> steps]

\* fault: "none", "check_query" (the existence query raises) or "transform"
\* (add_metadata raises on a record)
run(rawS, table, now, file, batch_id, skip_if_exists, validation_threshold, fault, autocommit) ==
    LET r0 == ETLPipelineResult(batch_id, file.name, now)
        pre == validate_prerequisites(file)
        s1 == <<"validate_prerequisites">>
        s2 == Append(s1, "_initialize_components")
        s3 == IF skip_if_exists THEN Append(s2, "check_batch_exists") ELSE s2
        s4 == Append(s3, "validate_file")
        s5 == Append(s4, "transform_records")
        s6 == Append(s5, "insert_records")
    IN IF pre # None
       THEN Outcome(rawS, table, Caught(r0, pre), s1, now)
       ELSE IF skip_if_exists
               /\ check_batch_exists(rawS, table, batch_id,
                                     fault = "check_query")
       THEN Outcome(rawS, table,
                    [r0 EXCEPT !.success = TRUE,
                               !.error_message =
                                   "Batch already exists, processing skipped"],
                    s3, now)
       ELSE
       LET v == validate_csv_file(file)
           r1 == [r0 EXCEPT !.total_records_read = v.total_processed,
                            !.valid_records = Len(v.valid_records),
                            !.invalid_records = Len(v.invalid_records),
                            !.validation_errors = v.errors]
       IN IF BelowThreshold(r1, validation_threshold)
          THEN Outcome(rawS, table,
                       Caught(r1, "Validation success rate is below threshold"),
                       s4, now)
          ELSE IF v.valid_records = <<>>
          THEN Outcome(rawS, table,
                       Caught(r1, "No valid records found in CSV file"),
                       s4, now)
          ELSE IF fault = "transform"
          THEN Outcome(rawS, table, Caught(r1, "transform error"), s5, now)
          ELSE
          LET transformed == transform_records(
                                 DataTransformer(file, batch_id, now),
                                 v.valid_records)
              ins == insert_records(rawS, table, transformed, autocommit)
              r2 == [r1 EXCEPT !.records_inserted = ins.successful,
                               !.records_failed = ins.failed,
                               !.insertion_errors = ins.errors]
          IN Outcome(ins.raw, ins.table, DetermineSuccess(r2), s6, now)

\* variant: the existence check is repeated in one step with the load
run_after_check_locked(rawS, table, now, file, batch_id, validation_threshold, autocommit) ==
    run(rawS, table, now, file, batch_id, TRUE, validation_threshold, "none",
        autocommit)

\* run from "Step 1" on, reached when the existence check was not asked for
\* or answered False: validation, transformation and load, with no further
\* look at the batch's rows
run_after_check(rawS, table, now, file, batch_id, validation_threshold, autocommit) ==
    run(rawS, table, now, file, batch_id, FALSE, validation_threshold, "none",
        autocommit)

\* variant: dry_run initializes every component and loads the sample
dry_run_loads(rawS, table, file, batch_id, now) ==
    LET pre == validate_prerequisites(file)
        v == validate_csv_file(file)
        t == DataTransformer(file, batch_id, now)
        sample == IF v.valid_records # <<>>
                  THEN <<add_metadata(t, v.valid_records[1])>> ELSE <<>>
        ins == insert_records(rawS, table, sample, TRUE)
    IN IF pre # None
       THEN [raw |-> rawS, table |-> table,
             error |-> pre, ready_for_processing |-> FALSE,
             valid |-> 0, total |-> 0, sample_transformed |-> <<>>,
             steps |-> <<"validate_prerequisites">>]
       ELSE [raw |-> ins.raw, table |-> ins.table,
             error |-> None,
             ready_for_processing |-> is_valid(v) /\ Len(v.valid_records) > 0,
             valid |-> Len(v.valid_records), total |-> v.total_processed,
             sample_transformed |-> sample,
             steps |-> <<"validate_prerequisites", "_initialize_components",
                         "validate_file", "add_metadata", "insert_records">>]

\* dry_run: the returned dictionary, the steps taken and the store it leaves
\* (no loader is created, so the store is the one it found)
dry_run(rawS, table, file, batch_id, now) ==
    LET pre == validate_prerequisites(file)
        v == validate_csv_file(file)
        t == DataTransformer(file, batch_id, now)
    IN IF pre # None
       THEN [raw |-> rawS, table |-> table,
             error |-> pre, ready_for_processing |-> FALSE,
             valid |-> 0, total |-> 0, sample_transformed |-> <<>>,
             steps |-> <<"validate_prerequisites">>]
       ELSE [raw |-> rawS, table |-> table,
             error |-> None,
             ready_for_processing |-> is_valid(v) /\ Len(v.valid_records) > 0,
             valid |-> Len(v.valid_records), total |-> v.total_processed,
             sample_transformed |->
                 IF v.valid_records # <<>>
                 THEN <<add_metadata(t, v.valid_records[1])>> ELSE <<>>,
             steps |-> <<"validate_prerequisites", "create_csv_reader",
                         "create_data_transformer", "get_file_info",
                         "peek_data", "validate_file">>
                       \o (IF v.valid_records # <<>>
                           THEN <<"add_metadata">> ELSE <<>>)]

\* ------------------------------------------------------------------------
\* analytics/kpi_engine.py and the kpi_metrics table
\* ------------------------------------------------------------------------
\* Optional[Decimal]
Null == [null |-> TRUE, v |-> 0]

Some(x) == [null |-> FALSE, v |-> x]

\* n / d quantized with ROUND_HALF_UP (ties away from zero), d > 0
RoundHalfUp(n, d) ==
    IF n >= 0 THEN (2 * n + d) \div (2 * d)
    ELSE 0 - ((2 * (0 - n) + d) \div (2 * d))

\* self.revenue_per_conversion = Decimal('100')
revenue_per_conversion == 100

\* variant: a negative spend is not clamped
calculate_cac_unclamped(spend, conversions) ==
    IF conversions <= 0 THEN Null
    ELSE Some(RoundHalfUp(spend * 100, conversions))

\* spend in cents, result in units of 0.0001
calculate_cac(spend, conversions) ==
    IF conversions <= 0 THEN Null
    ELSE LET sp == IF spend < 0 THEN 0 ELSE spend
         IN Some(RoundHalfUp(sp * 100, conversions))

\* revenue and spend in cents, result in units of 0.0001
calculate_roas(revenue, spend) ==
    IF spend <= 0 THEN Null
    ELSE LET rev == IF revenue < 0 THEN 0 ELSE revenue
         IN Some(RoundHalfUp(rev * 10000, spend))

\* revenue in cents
calculate_revenue(conversions) ==
    LET c == IF conversions < 0 THEN 0 ELSE conversions
    IN c * revenue_per_conversion * 100

\* variant: a note is attached whenever a ratio is None
compute_kpis_for_record_any_none(spend, conversions) ==
    LET revenue == calculate_revenue(conversions)
        cac == calculate_cac(spend, conversions)
        roas == calculate_roas(revenue, spend)
        e1 == IF cac.null
              THEN <<"CAC calculation: Division by zero (no conversions)">>
              ELSE <<>>
        e2 == IF roas.null
              THEN <<"ROAS calculation: Division by zero (no spend)">>
              ELSE <<>>
    IN [cac |-> cac, roas |-> roas, revenue |-> revenue,
        total_spend |-> spend, total_conversions |-> conversions,
        has_errors |-> Len(e1 \o e2) > 0, error_messages |-> e1 \o e2]

compute_kpis_for_record(spend, conversions) ==
    LET revenue == calculate_revenue(conversions)
        cac == calculate_cac(spend, conversions)
        roas == calculate_roas(revenue, spend)
        e1 == IF cac.null /\ conversions = 0
              THEN <<"CAC calculation: Division by zero (no conversions)">>
              ELSE <<>>
        e2 == IF roas.null /\ spend = 0
              THEN <<"ROAS calculation: Division by zero (no spend)">>
              ELSE <<>>
    IN [cac |-> cac, roas |-> roas, revenue |-> revenue,
        total_spend |-> spend, total_conversions |-> conversions,
        has_errors |-> Len(e1 \o e2) > 0, error_messages |-> e1 \o e2]

\* the columns of raw_ads_spend a query can group by
Dimensions == <<"date", "platform", "account", "campaign", "country", "device">>

RawColumns ==
    {"date", "platform", "account", "campaign", "country", "device",
     "spend", "clicks", "impressions", "conversions", "load_date",
     "source_file_name", "batch_id"}

\* collation of the strings that occur in the dimension columns
StrOrder ==
    <<"AcctA", "AcctB", "Desktop", "Google", "Meta", "Mobile", "Prospecting",
      "US">>

Rank(dim, val) ==
    IF dim = "date" THEN val
    ELSE CHOOSE i \in 1..Len(StrOrder) : StrOrder[i] = val

\* the GROUP BY key of a raw row, as ranks
GroupKey(r, dims) == [i \in 1..Len(dims) |-> Rank(dims[i], r[dims[i]])]

RECURSIVE LexLess(_, _)
LexLess(a, b) ==
    IF a = <<>> THEN FALSE
    ELSE IF Head(a) # Head(b) THEN Head(a) < Head(b)
    ELSE LexLess(Tail(a), Tail(b))

\* ORDER BY: the keys in ascending order
RECURSIVE SortKeys(_)
SortKeys(keys) ==
    IF keys = {} THEN <<>>
    ELSE LET m == CHOOSE k \in keys : \A o \in keys : o = k \/ LexLess(k, o)
         IN <<m>> \o SortKeys(keys \ {m})

\* SUM(column) over the rows of a bag that satisfy P
RECURSIVE SumOver(_, _, _)
SumOver(b, rows, col) ==
    IF rows = {} THEN 0
    ELSE LET r == CHOOSE x \in rows : TRUE
         IN b[r] * r[col] + SumOver(b, rows \ {r}, col)

\* start_date / end_date not given
NoDate == 0

\* variant: the end of the range is exclusive
InRange_open_end(r, start_date, end_date) ==
    /\ (start_date # NoDate => r.date >= start_date)
    /\ (end_date # NoDate => r.date < end_date)

InRange(r, start_date, end_date) ==
    /\ (start_date # NoDate => r.date >= start_date)
    /\ (end_date # NoDate => r.date <= end_date)

SeqToSet(seq) == {seq[i] : i \in 1..Len(seq)}

KPIMetrics(rep, dims, kpi_result, now) ==
    LET Get(dim, default) == IF dim \in SeqToSet(dims) THEN rep[dim] ELSE default
    IN [date |-> Get("date", Today), platform |-> Get("platform", "ALL"),
        account |-> Get("account", "ALL"), campaign |-> Get("campaign", "ALL"),
        country |-> Get("country", "ALL"), device |-> Get("device", "ALL"),
        total_spend |-> kpi_result.total_spend,
        total_conversions |-> kpi_result.total_conversions,
        cac |-> kpi_result.cac, roas |-> kpi_result.roas,
        revenue |-> kpi_result.revenue, created_at |-> now]

\* the query fails when the table is missing, the list is empty or a name
\* is not a column
aggregate_raw_data_to_kpis(rawS, table, start_date, end_date, dimensions, now) ==
    IF table = "absent" \/ dimensions = <<>>
       \/ ~(SeqToSet(dimensions) \subseteq RawColumns)
    THEN [raised |-> TRUE, kpi_metrics |-> <<>>]
    ELSE
    LET rows == {r \in DOMAIN rawS : InRange(r, start_date, end_date)}
        keys == SortKeys({GroupKey(r, dimensions) : r \in rows})
        Metric(k) ==
            LET grp == {r \in rows : GroupKey(r, dimensions) = k}
                rep == CHOOSE r \in grp : TRUE
            IN KPIMetrics(rep, dimensions,
                          compute_kpis_for_record(
                              SumOver(rawS, grp, "spend"),
                              SumOver(rawS, grp, "conversions")),
                          now)
    IN [raised |-> FALSE,
        kpi_metrics |-> [i \in 1..Len(keys) |-> Metric(keys[i])]]

\* PRIMARY KEY (date, platform, account, campaign, country, device)
KpiKey(m) ==
    <<m.date, m.platform, m.account, m.campaign, m.country, m.device>>

\* the CHECK constraints of kpi_metrics
KpiAccepts(m) ==
    /\ m.total_spend >= 0 /\ m.total_conversions >= 0 /\ m.revenue >= 0
    /\ (~m.cac.null => m.cac.v >= 0) /\ (~m.roas.null => m.roas.v >= 0)
    /\ m.platform \in VALID_PLATFORMS \cup {"ALL"}
    /\ m.device \in VALID_DEVICES \cup {"ALL"}
    /\ m.country \in VALID_COUNTRIES \cup {"ALL"}

\* variant: plain INSERT into a table without the primary key
Upsert_insert(kpiS, m) == kpiS \cup {m}

\* INSERT OR REPLACE of one row
Upsert(kpiS, m) == {x \in kpiS : KpiKey(x) # KpiKey(m)} \cup {m}

RECURSIVE UpsertAll(_, _)
UpsertAll(kpiS, metrics) ==
    IF metrics = <<>> THEN kpiS
    ELSE UpsertAll(Upsert(kpiS, Head(metrics)), Tail(metrics))

\* execute_many of the upsert: stops at the first row a CHECK rejects; the
\* rows before it stay when the driver autocommits each statement
store_kpi_metrics(kpiS, kpiTable, kpi_metrics, autocommit) ==
    IF kpi_metrics = <<>>
    THEN [kpi |-> kpiS, stored |-> 0, raised |-> FALSE]
    ELSE IF ~kpiTable
    THEN [kpi |-> kpiS, stored |-> 0, raised |-> TRUE]
    ELSE LET bad == {i \in 1..Len(kpi_metrics) : ~KpiAccepts(kpi_metrics[i])}
             k == IF bad = {} THEN 0
                  ELSE CHOOSE i \in bad : \A j \in bad : i <= j
         IN IF k = 0
            THEN [kpi |-> UpsertAll(kpiS, kpi_metrics),
                  stored |-> Len(kpi_metrics), raised |-> FALSE]
            ELSE [kpi |-> IF autocommit
                          THEN UpsertAll(kpiS, SubSeq(kpi_metrics, 1, k - 1))
                          ELSE kpiS,
                  stored |-> 0, raised |-> TRUE]

compute_and_store_kpis(rawS, table, kpiS, kpiTable, start_date, end_date, dimensions, now, autocommit) ==
    LET agg == aggregate_raw_data_to_kpis(rawS, table, start_date, end_date,
                                          dimensions, now)
    IN IF agg.raised THEN [kpi |-> kpiS, stored |-> 0, raised |-> TRUE]
       ELSE store_kpi_metrics(kpiS, kpiTable, agg.kpi_metrics, autocommit)

\* ORDER BY r.date DESC, r.platform
CompareKey(d, p) == <<0 - d, Rank("platform", p)>>

\* a SQL double kept exact: num / den, or NULL
NullRatio == [null |-> TRUE, num |-> 0, den |-> 1]

Ratio(n, d) == [null |-> FALSE, num |-> n, den |-> d]

\* AVG(column) over the rows where it is not NULL, in units of 0.0001
AvgOver(rows, col) ==
    LET present == {m \in rows : ~m[col].null}
        values == [m \in present |-> m[col].v]
        RECURSIVE Sum(_)
        Sum(ms) == IF ms = {} THEN 0
                   ELSE LET m == CHOOSE x \in ms : TRUE
                        IN values[m] + Sum(ms \ {m})
    IN IF present = {} THEN NullRatio
       ELSE Ratio(Sum(present), Cardinality(present))

\* the rows the validation query returns: raw_aggregated LEFT JOIN
\* kpi_aggregated ON (date, platform), ratios in units of 0.0001
ValidationQuery(rawS, kpiS) ==
    LET rawRows == DOMAIN rawS
        keys == SortKeys({CompareKey(r.date, r.platform) : r \in rawRows})
        kpiBag == SetToBag(kpiS)
        Compare(k) ==
            LET rg == {r \in rawRows : CompareKey(r.date, r.platform) = k}
                kg == {m \in kpiS : CompareKey(m.date, m.platform) = k}
                rep == CHOOSE r \in rg : TRUE
                raw_spend == SumOver(rawS, rg, "spend")
                raw_conversions == SumOver(rawS, rg, "conversions")
                kpi_spend == SumOver(kpiBag, kg, "total_spend")
                kpi_conversions == SumOver(kpiBag, kg, "total_conversions")
                sd == raw_spend - kpi_spend
                cd == raw_conversions - kpi_conversions
            IN [date |-> rep.date, platform |-> rep.platform,
                raw_spend |-> raw_spend, kpi_spend |-> kpi_spend,
                raw_conversions |-> raw_conversions,
                kpi_conversions |-> kpi_conversions,
                raw_cac |-> IF raw_conversions > 0
                            THEN Ratio(raw_spend * 100, raw_conversions)
                            ELSE NullRatio,
                kpi_cac |-> AvgOver(kg, "cac"),
                raw_roas |-> IF raw_spend > 0
                             THEN Ratio(raw_conversions * 100000000, raw_spend)
                             ELSE NullRatio,
                kpi_roas |-> AvgOver(kg, "roas"),
                spend_diff |-> IF sd < 0 THEN 0 - sd ELSE sd,
                conversions_diff |-> IF cd < 0 THEN 0 - cd ELSE cd]
    IN [i \in 1..Len(keys) |-> Compare(keys[i])]

\* variant: a raw group without KPI rows is not counted as a mismatch
validate_kpi_calculations_skip_null(rawS, table, kpiS, kpiTable) ==
    IF table = "absent" \/ ~kpiTable
    THEN [raised |-> TRUE, total_comparisons |-> 0, mismatches |-> 0,
          details |-> <<>>]
    ELSE
    LET rows == ValidationQuery(rawS, kpiS)
        details == SelectSeq(rows, LAMBDA x :
                       /\ x.spend_diff > 1 \/ x.conversions_diff > 0
                       /\ \E m \in kpiS :
                              m.date = x.date /\ m.platform = x.platform)
    IN [raised |-> FALSE, total_comparisons |-> Len(rows),
        mismatches |-> Len(details), details |-> details]

\* the count of mismatches and their rows
validate_kpi_calculations(rawS, table, kpiS, kpiTable) ==
    IF table = "absent" \/ ~kpiTable
    THEN [raised |-> TRUE, total_comparisons |-> 0, mismatches |-> 0,
          details |-> <<>>]
    ELSE
    LET rows == ValidationQuery(rawS, kpiS)
        \* spend_diff > 0.01 or conv_diff > 0
        details == SelectSeq(rows, LAMBDA x :
                                 x.spend_diff > 1 \/ x.conversions_diff > 0)
    IN [raised |-> FALSE, total_comparisons |-> Len(rows),
        mismatches |-> Len(details), details |-> details]

\* ------------------------------------------------------------------------
\* The state
\* ------------------------------------------------------------------------
VARIABLES
    raw,        \* bag of the rows of raw_ads_spend
    rawTable,   \* "absent", "strict" or "plain"
    kpi,        \* the rows of kpi_metrics
    kpiTable,   \* whether kpi_metrics exists
    clock,      \* datetime.now()
    op,         \* the call under observation, "idle" while there is none
    args,       \* its arguments
    ret,        \* what it returned
    rawPre,     \* raw before it ran
    kpiPre,     \* kpi before it ran
    pipelines   \* the position of each concurrently running ETLPipeline.run

vars ==
    <<raw, rawTable, kpi, kpiTable, clock, op, args, ret, rawPre, kpiPre,
      pipelines>>

\* the pipelines that can run at the same time on one database
Pipelines == {1, 2}

\* a pipeline whose run has not been called
NotStarted ==
    [pc |-> "NotStarted", file |-> File("missing", "", TRUE, <<>>),
     batch_id |-> NoBatch, skip_if_exists |-> FALSE, now |-> NoTime,
     exists |-> FALSE,
     result |-> ETLPipelineResult(NoBatch, "", NoTime)]

Blank == [none |-> TRUE]

Init ==
    /\ raw = EmptyBag
    /\ rawTable = "absent"
    /\ kpi = {}
    /\ kpiTable = FALSE
    /\ clock = 1
    /\ op = "idle"
    /\ args = Blank
    /\ ret = Blank
    /\ rawPre = EmptyBag
    /\ kpiPre = {}
    /\ pipelines = [p \in Pipelines |-> NotStarted]

\* A behaviour is a history of calls that fill the stores, followed by one
\* call whose arguments, result and pre-state are recorded; every call can be
\* the recorded one, from every state the history can reach.
Idle == op = "idle"

Record(watch, name, arguments, returned) ==
    /\ IF watch
       THEN /\ op' = name
            /\ args' = arguments
            /\ ret' = returned
            /\ rawPre' = raw
            /\ kpiPre' = kpi
       ELSE UNCHANGED <<op, args, ret, rawPre, kpiPre>>
    /\ UNCHANGED pipelines

\* database/init_db.py: CREATE TABLE IF NOT EXISTS for both tables
InitializeDatabase ==
    /\ Idle
    /\ ~kpiTable
    /\ rawTable' = (IF rawTable = "absent" THEN "strict" ELSE rawTable)
    /\ kpiTable' = TRUE
    /\ UNCHANGED <<raw, kpi, clock, op, args, ret, rawPre, kpiPre, pipelines>>

\* inputs of the orchestrator
Thresholds == {0, 50, 95, 100}
Environments == {"none", "check_query", "transform", "rollback"}

\* ETLPipeline.__init__: batch_id or generate_batch_id()
ETLPipeline(file, batch_id, now) ==
    [csv_file_path |-> file,
     batch_id |-> IF batch_id = NoBatch THEN generate_batch_id(now)
                  ELSE batch_id]

\* One execution with the constructor's batch id
Execute(file, b, skip_if_exists, validation_threshold, env) ==
    run(raw, rawTable, clock, file, ETLPipeline(file, b, clock).batch_id,
        skip_if_exists, validation_threshold, env, env # "rollback")

\* run_etl_pipeline(csv_file_path, batch_id, skip_if_exists, validation_threshold)
\* A non-default threshold or a fault is drawn only where the run reads it,
\* that is where it changes what the run does.
RunEtlWith(files, batches, skips, thresholds, envs) ==
    /\ Idle
    /\ clock <= MaxClock
    /\ \E file \in files :
        /\ BagCardinality(raw) + Len(file.rows) <= MaxRaw
        /\ \E b \in batches, skip_if_exists \in skips :
            LET default == Execute(file, b, skip_if_exists, 95, "none")
            IN \E validation_threshold \in thresholds :
                LET plain == Execute(file, b, skip_if_exists,
                                     validation_threshold, "none")
                IN /\ validation_threshold # 95 => plain # default
                   /\ \E env \in envs, watch \in BOOLEAN :
                       LET out == Execute(file, b, skip_if_exists,
                                          validation_threshold, env)
                       IN /\ env # "none" => out # plain
                          /\ raw' = out.raw
                          /\ rawTable' = out.table
                          /\ clock' = clock + 1
                          /\ Record(watch, "run_etl",
                                    [file |-> file,
                                     batch_id |-> out.result.batch_id,
                                     skip_if_exists |-> skip_if_exists,
                                     validation_threshold |->
                                         validation_threshold,
                                     env |-> env],
                                    [result |-> out.result,
                                     steps |-> out.steps])
                          /\ UNCHANGED <<kpi, kpiTable>>

RunEtl ==
    RunEtlWith(Files, CallerBatchIds \cup {NoBatch}, BOOLEAN, Thresholds,
               Environments)

\* ETLPipeline(csv, batch_id).dry_run()
DryRunFiles ==
    {f \in Files :
        f.name \in {"gone.csv", "zero.csv", "nohdr.csv", "two.csv", "half.csv",
                    "gap.csv"}}

DryRun ==
    /\ Idle
    /\ \E file \in DryRunFiles, b \in CallerBatchIds :
        LET out == dry_run(raw, rawTable, file, b, clock)
        IN /\ raw' = out.raw
           /\ rawTable' = out.table
           /\ Record(TRUE, "dry_run", [file |-> file, batch_id |-> b],
                     [error |-> out.error,
                      ready_for_processing |-> out.ready_for_processing,
                      valid |-> out.valid, total |-> out.total,
                      sample_transformed |-> out.sample_transformed,
                      steps |-> out.steps])
           /\ UNCHANGED <<kpi, kpiTable, clock>>

\* records handed to the loader directly (not through the validator)
rowUnpreparable ==
    Row("data", 1, "Meta", "AcctB", "Desktop", UnpreparableSpend, 5, 100, 1)

RecordLists ==
    { <<>>,
      <<rowMetaA>>,
      <<rowUnpreparable>>,
      <<rowUnpreparable, rowMetaA>>,
      <<rowMetaA, rowNegSpend>>,
      <<rowUnpreparable, rowNegSpend, rowMetaB>> }

\* DatabaseLoader.insert_records(records); the driver's rollback is drawn
\* only where the batch insert fails
InsertRecords ==
    /\ Idle
    /\ \E rows \in RecordLists, b \in CallerBatchIds, autocommit \in BOOLEAN,
          watch \in BOOLEAN :
        LET t == DataTransformer(File("ok", "api.csv", TRUE, rows), b, clock)
            records == [i \in 1..Len(rows) |->
                            add_metadata(t, AdsSpendRecord(rows[i]))]
            out == insert_records(raw, rawTable, records, autocommit)
        IN /\ BagCardinality(raw) + Len(rows) <= MaxRaw
           /\ (~autocommit =>
                  \E i \in 1..Len(records) :
                      /\ Preparable(records[i])
                      /\ ~StoreAccepts(ensure_tables_exist(rawTable),
                                       records[i]))
           /\ raw' = out.raw
           /\ rawTable' = out.table
           /\ Record(watch, "insert_records",
                     [records |-> records, autocommit |-> autocommit],
                     [successful |-> out.successful, failed |-> out.failed,
                      errors |-> out.errors])
           /\ UNCHANGED <<kpi, kpiTable, clock>>

\* DatabaseLoader.delete_batch(batch_id)
DeleteBatch ==
    /\ Idle
    /\ \E b \in CallerBatchIds, watch \in BOOLEAN :
        LET out == delete_batch(raw, rawTable, b)
        IN /\ raw' = out.raw
           /\ Record(watch, "delete_batch", [batch_id |-> b],
                     [count |-> out.count, raised |-> out.raised])
           /\ UNCHANGED <<rawTable, kpi, kpiTable, clock>>

\* dimension lists and date ranges callers pass
DimensionChoices ==
    { Dimensions, <<"date", "platform">>, <<"platform">>, <<"date", "region">> }

DateRanges == { <<NoDate, NoDate>>, <<1, 1>> }

\* KPIEngine.compute_and_store_kpis(start_date, end_date, dimensions)
ComputeAndStoreKpis ==
    /\ Idle
    /\ \E dimensions \in DimensionChoices, range \in DateRanges,
          autocommit \in BOOLEAN, watch \in BOOLEAN :
        LET out == compute_and_store_kpis(raw, rawTable, kpi, kpiTable,
                                          range[1], range[2], dimensions,
                                          clock, autocommit)
        IN /\ (~autocommit => out.raised /\ kpiTable)
           /\ kpi' = out.kpi
           /\ Record(watch, "compute_and_store_kpis",
                     [dimensions |-> dimensions, start_date |-> range[1],
                      end_date |-> range[2], autocommit |-> autocommit],
                     [stored |-> out.stored, raised |-> out.raised])
           /\ UNCHANGED <<raw, rawTable, kpiTable, clock>>

\* KPIEngine.aggregate_raw_data_to_kpis(start_date, end_date, dimensions)
AggregateRawDataToKpis ==
    /\ Idle
    /\ \E dimensions \in DimensionChoices, range \in DateRanges :
        LET out == aggregate_raw_data_to_kpis(raw, rawTable, range[1],
                                              range[2], dimensions, clock)
        IN /\ Record(TRUE, "aggregate_raw_data_to_kpis",
                     [dimensions |-> dimensions, start_date |-> range[1],
                      end_date |-> range[2]],
                     [kpi_metrics |-> out.kpi_metrics, raised |-> out.raised])
           /\ UNCHANGED <<raw, rawTable, kpi, kpiTable, clock>>

\* KPIMetrics objects handed to store_kpi_metrics directly
Metric(d, p, a, spend, conversions, now) ==
    KPIMetrics([date |-> d, platform |-> p, account |-> a,
                campaign |-> "Prospecting", country |-> "US",
                device |-> "Desktop"],
               Dimensions, compute_kpis_for_record(spend, conversions), now)

MetricLists(now) ==
    { <<>>,
      <<Metric(1, "Meta", "AcctA", 10000, 2, now)>>,
      <<Metric(1, "Meta", "AcctA", 7000, 0, now)>>,
      <<Metric(1, "Meta", "AcctA", 10000, 2, now),
        Metric(1, "Meta", "AcctA", 0, 3, now)>>,
      <<Metric(2, "Google", "AcctA", 300, 1, now),
        Metric(1, "Meta", "AcctA", -500, 1, now),
        Metric(1, "Meta", "AcctB", 300, 1, now)>> }

\* KPIEngine.store_kpi_metrics(kpi_metrics)
StoreKpiMetrics ==
    /\ Idle
    /\ \E kpi_metrics \in MetricLists(clock), autocommit \in BOOLEAN,
          watch \in BOOLEAN :
        LET out == store_kpi_metrics(kpi, kpiTable, kpi_metrics, autocommit)
        IN /\ (~autocommit => out.raised /\ kpiTable)
           /\ kpi' = out.kpi
           /\ Record(watch, "store_kpi_metrics",
                     [kpi_metrics |-> kpi_metrics, autocommit |-> autocommit],
                     [stored |-> out.stored, raised |-> out.raised])
           /\ UNCHANGED <<raw, rawTable, kpiTable, clock>>

\* KPIEngine.validate_kpi_calculations()
ValidateKpiCalculations ==
    /\ Idle
    /\ Record(TRUE, "validate_kpi_calculations", Blank,
              validate_kpi_calculations(raw, rawTable, kpi, kpiTable))
    /\ UNCHANGED <<raw, rawTable, kpi, kpiTable, clock>>

\* DatabaseLoader.get_batch_info(batch_id)
GetBatchInfo ==
    /\ Idle
    /\ \E b \in CallerBatchIds \cup {generate_batch_id(1)} :
       \E out \in get_batch_info(raw, rawTable, b) :
          Record(TRUE, "get_batch_info", [batch_id |-> b], out)
    /\ UNCHANGED <<raw, rawTable, kpi, kpiTable, clock>>

Next ==
    \/ InitializeDatabase
    \/ RunEtl
    \/ InsertRecords
    \/ DeleteBatch

Spec == Init /\ [][Next]_vars

\* Two run_etl_pipeline calls on one database, interleaved at the existence
\* check: each call is one step up to the check and one step from there on.
RaceFiles == {f \in Files : f.name \in {"one.csv", "two.csv", "bad.csv"}}

\* run up to and including check_batch_exists; a skipped run ends here
StartRun(p) ==
    /\ Idle
    /\ pipelines[p].pc = "NotStarted"
    /\ \E file \in RaceFiles, b \in CallerBatchIds, skip_if_exists \in BOOLEAN :
        LET exists == /\ skip_if_exists
                      /\ check_batch_exists(raw, rawTable, b, FALSE)
            whole == run(raw, rawTable, clock, file, b, skip_if_exists, 95,
                         "none", TRUE)
            stops == validate_prerequisites(file) # None \/ exists
        IN pipelines' =
               [pipelines EXCEPT ![p] =
                   [pc |-> IF stops THEN "Terminal" ELSE "Checked",
                    file |-> file, batch_id |-> b,
                    skip_if_exists |-> skip_if_exists, now |-> clock,
                    exists |-> exists,
                    result |-> IF stops THEN whole.result
                               ELSE ETLPipelineResult(b, file.name, clock)]]
    /\ clock' = clock + 1
    /\ UNCHANGED <<raw, rawTable, kpi, kpiTable, op, args, ret, rawPre, kpiPre>>

\* the rest of run: validate_file, transform_records, insert_records
FinishRun(p) ==
    /\ Idle
    /\ pipelines[p].pc = "Checked"
    /\ LET me == pipelines[p]
           out == run_after_check(raw, rawTable, me.now, me.file, me.batch_id,
                                  95, TRUE)
       IN /\ raw' = out.raw
          /\ rawTable' = out.table
          /\ pipelines' = [pipelines EXCEPT ![p] =
                               [me EXCEPT !.pc = "Terminal",
                                          !.result = out.result]]
    /\ UNCHANGED <<kpi, kpiTable, clock, op, args, ret, rawPre, kpiPre>>

NextRace ==
    \/ InitializeDatabase
    \/ \E p \in Pipelines : StartRun(p)
    \/ \E p \in Pipelines : FinishRun(p)

SpecRace == Init /\ [][NextRace]_vars

\* the KPI engine over a store filled by plain ingestion runs
IngestFiles == {f \in Files : f.name \in {"two.csv", "goog.csv", "neg.csv"}}

Ingest == RunEtlWith(IngestFiles, CallerBatchIds, {FALSE}, {95}, {"none"})

NextKpi ==
    \/ InitializeDatabase
    \/ Ingest
    \/ DryRun
    \/ DeleteBatch
    \/ AggregateRawDataToKpis
    \/ ComputeAndStoreKpis
    \/ ValidateKpiCalculations
    \/ GetBatchInfo

SpecKpi == Init /\ [][NextKpi]_vars

\* the KPI store under computed and directly stored metrics
StoreFiles == {f \in Files : f.name \in {"two.csv"}}

IngestOne == RunEtlWith(StoreFiles, CallerBatchIds, {FALSE}, {95}, {"none"})

NextStore ==
    \/ InitializeDatabase
    \/ IngestOne
    \/ ComputeAndStoreKpis
    \/ StoreKpiMetrics

SpecStore == Init /\ [][NextStore]_vars

\* ------------------------------------------------------------------------
\* Properties
\* ------------------------------------------------------------------------
Steps == SeqToSet(ret.steps)

C2_RoundTrip ==
    (op = "compute_and_store_kpis" /\ ~ret.raised
        /\ args.dimensions = Dimensions
        /\ args.start_date = NoDate /\ args.end_date = NoDate)
    => LET v == validate_kpi_calculations(raw, rawTable, kpi, kpiTable)
       IN v.raised \/ v.mismatches = 0

\* the metrics the observed call handed to the KPI store
StoredMetrics ==
    IF op = "store_kpi_metrics" THEN args.kpi_metrics
    ELSE aggregate_raw_data_to_kpis(raw, rawTable, args.start_date,
                                    args.end_date, args.dimensions,
                                    clock).kpi_metrics

\* C3: the KPI store never holds two rows with the same six-dimension key;
\* after a store that completes, each key written holds the values written
\* last, and every other row is as it was.
C3_UpsertOneRowPerKey ==
    /\ \A x, y \in kpi : KpiKey(x) = KpiKey(y) => x = y
    /\ ((op \in {"store_kpi_metrics", "compute_and_store_kpis"}
            /\ ~ret.raised)
        => LET ms == StoredMetrics
               written == {KpiKey(ms[i]) : i \in 1..Len(ms)}
           IN /\ \A i \in 1..Len(ms) :
                    (\A j \in (i + 1)..Len(ms) : KpiKey(ms[j]) # KpiKey(ms[i]))
                    => ms[i] \in kpi
              /\ \A x \in kpi : KpiKey(x) \in written \/ x \in kpiPre
              /\ \A x \in kpiPre : KpiKey(x) \in written \/ x \in kpi)

C3_Witness ==
    /\ op = "store_kpi_metrics" /\ ~ret.raised
    /\ \E x \in kpiPre : \E i \in 1..Len(args.kpi_metrics) :
          /\ KpiKey(args.kpi_metrics[i]) = KpiKey(x)
          /\ args.kpi_metrics[i] # x
          /\ x \notin kpi
    /\ Cardinality(kpi) = Cardinality(kpiPre)

\* C4: once the load step has run, inserted > 0 and failed = 0 gives success
\* without a message, inserted > 0 and failed > 0 gives success with a
\* message, and inserted = 0 gives a failed run.
C4_LoadOutcome ==
    (op = "run_etl" /\ "insert_records" \in Steps)
    => LET r == ret.result
       IN /\ (r.records_inserted > 0 /\ r.records_failed = 0)
                => (r.success /\ r.error_message = None)
          /\ (r.records_inserted > 0 /\ r.records_failed > 0)
                => (r.success /\ r.error_message # None)
          /\ r.records_inserted = 0 => ~r.success
          /\ ~r.success => r.records_inserted = 0

C4_Witness ==
    /\ op = "run_etl" /\ "insert_records" \in Steps
    /\ ret.result.records_inserted > 0 /\ ret.result.records_failed > 0
    /\ ret.result.success

\* C5: a run that reaches validation fails, before any transformation,
\* whenever the success rate is below the threshold and whenever no record is
\* valid (for every threshold, 0 included); a rate at or above the threshold
\* with at least one valid record goes on to the transformation.
C5_Threshold ==
    (op = "run_etl" /\ "validate_file" \in Steps)
    => LET r == ret.result
           thr == args.validation_threshold
           proceeds == "transform_records" \in Steps
       IN /\ (r.total_records_read > 0
                 /\ r.valid_records * 100 < thr * r.total_records_read)
                => (~r.success /\ ~proceeds)
          /\ r.valid_records = 0 => (~r.success /\ ~proceeds)
          /\ (r.valid_records >= 1
                 /\ r.valid_records * 100 >= thr * r.total_records_read)
                => proceeds

C5_Witness ==
    /\ op = "run_etl" /\ "transform_records" \in Steps
    /\ ret.result.valid_records >= 1
    /\ ret.result.invalid_records >= 1
    /\ ret.result.valid_records * 100
          = args.validation_threshold * ret.result.total_records_read

\* C6: a run that meets a batch-level error (the csv is missing, empty or not
\* a file; the success rate is below the threshold; no record is valid; the
\* transformation raises) fails with a message and leaves the raw store as
\* it found it; when the prerequisites fail, no later step runs.
C6_BatchErrorsLeaveStore ==
    op = "run_etl"
    => LET r == ret.result
           thr == args.validation_threshold
           prerequisites == args.file.status # "ok"
           rejected == /\ "validate_file" \in Steps
                       /\ \/ r.valid_records * 100 < thr * r.total_records_read
                          \/ r.valid_records = 0
           transform_raised == args.env = "transform"
       IN /\ (prerequisites \/ rejected \/ transform_raised)
                => /\ raw = rawPre
                   /\ ~r.success
                   /\ r.error_message # None
                   /\ r.records_inserted = 0
                   /\ "insert_records" \notin Steps
          /\ prerequisites => ret.steps = <<"validate_prerequisites">>

C6_Witness ==
    /\ op = "run_etl" /\ rawPre # EmptyBag
    /\ "validate_file" \in Steps
    /\ ret.result.valid_records >= 1
    /\ ret.result.valid_records * 100
          < args.validation_threshold * ret.result.total_records_read
    /\ ~ret.result.success /\ raw = rawPre

\* C7: every run_etl call returns a result whose end_time is set, and a
\* result with success = false carries an error message.
C7_AlwaysReturns ==
    op = "run_etl"
    => /\ ret.result.end_time # NoTime
       /\ ret.result.end_time >= ret.result.start_time
       /\ ~ret.result.success => ret.result.error_message # None

C7_Witness ==
    /\ op = "run_etl" /\ args.env = "transform"
    /\ ~ret.result.success /\ ret.result.end_time # NoTime
    /\ ret.result.error_message = "transform error"

\* C8: insert_records attempts every record (batch insert, then one by one
\* when the batch fails, without stopping at a failure): successful + failed
\* is the number of records given and there is one error entry per failure.
C8_CountsAddUp ==
    /\ op = "insert_records"
       => /\ ret.successful + ret.failed = Len(args.records)
          /\ Len(ret.errors) = ret.failed
    /\ (op = "run_etl" /\ "insert_records" \in Steps)
       => /\ ret.result.records_inserted + ret.result.records_failed
                = ret.result.valid_records
          /\ Len(ret.result.insertion_errors) = ret.result.records_failed

C8_Witness ==
    /\ op = "insert_records"
    /\ ret.successful > 0
    /\ \E i \in 1..Len(ret.errors) : ret.errors[i].phase = "prepare"
    /\ \E i \in 1..Len(ret.errors) :
          ret.errors[i].phase = "insert" /\ ret.errors[i].record = 1

\* how many times a record occurs in a list
Occurrences(records, r) == Len(SelectSeq(records, LAMBDA x : x = r))

\* C9: when insert_records returns (s, f, errors) the raw store has grown by
\* exactly s rows, no record given is stored more often than it was given,
\* and every record not stored has an error entry.
C9_StoreGrowsBySuccessful ==
    op = "insert_records"
    => /\ BagCardinality(raw) = BagCardinality(rawPre) + ret.successful
       /\ \A r \in BagToSet(raw) :
             CopiesIn(r, raw) - CopiesIn(r, rawPre)
                <= Occurrences(args.records, r)
       /\ Len(args.records) - (BagCardinality(raw) - BagCardinality(rawPre))
             <= Len(ret.errors)

\* C10: dry_run leaves the raw store and the KPI store as it found them and
\* neither initializes the loader nor reaches the load step.
C10_DryRunIsReadOnly ==
    op = "dry_run"
    => /\ raw = rawPre
       /\ kpi = kpiPre
       /\ "insert_records" \notin Steps
       /\ "_initialize_components" \notin Steps

C10_Witness ==
    /\ op = "dry_run" /\ rawPre # EmptyBag /\ kpiPre # {}
    /\ ret.error = None /\ ret.ready_for_processing
    /\ ret.sample_transformed # <<>>
    /\ raw = rawPre

\* the measures of a raw row are non-negative and clicks <= impressions
MeasuresInRange(r) ==
    /\ r.spend >= 0 /\ r.clicks >= 0 /\ r.impressions >= 0
    /\ r.conversions >= 0 /\ r.clicks <= r.impressions

\* C11: every row a run_etl call writes to the raw store has spend >= 0,
\* clicks >= 0, impressions >= 0, conversions >= 0 and clicks <= impressions,
\* and every record the validator accepts has them too.
C11_LoadedMeasuresNonNegative ==
    /\ op = "run_etl"
       => \A r \in BagToSet(raw) :
             CopiesIn(r, raw) > CopiesIn(r, rawPre) => MeasuresInRange(r)
    /\ op = "run_etl"
       => \A i \in 1..Len(args.file.rows) :
             LET v == validate_ads_spend_record(args.file.rows[i])
             IN (args.file.rows[i].kind = "data" /\ v.error = None)
                   => MeasuresInRange(args.file.rows[i])

\* cac is null exactly when there are no conversions, roas exactly when
\* there is no spend
NullsMatchZeros(m) ==
    /\ m.cac.null <=> m.total_conversions = 0
    /\ m.roas.null <=> m.total_spend = 0

\* C12: every record aggregate_raw_data_to_kpis produces from the raw store,
\* and every row of the KPI store, has cac null if and only if
\* total_conversions = 0 and roas null if and only if total_spend = 0.
C12_NullIffZero ==
    /\ \A m \in kpi : NullsMatchZeros(m)
    /\ \A dimensions \in DimensionChoices, range \in DateRanges :
          LET agg == aggregate_raw_data_to_kpis(raw, rawTable, range[1],
                                                range[2], dimensions, clock)
          IN \A i \in 1..Len(agg.kpi_metrics) :
                NullsMatchZeros(agg.kpi_metrics[i])

\* |a - b| > 0.0001 for two ratios that are both present
RatioDiffExceeds(a, b) ==
    /\ ~a.null /\ ~b.null
    /\ LET diff == a.num * b.den - b.num * a.den
       IN (IF diff < 0 THEN 0 - diff ELSE diff) > a.den * b.den

\* a compared row the specification calls a mismatch
SpecifiedMismatch(x) ==
    \/ x.spend_diff > 1
    \/ x.conversions_diff > 0
    \/ RatioDiffExceeds(x.raw_cac, x.kpi_cac)
    \/ RatioDiffExceeds(x.raw_roas, x.kpi_roas)

\* C13: validate_kpi_calculations reports as mismatches exactly the compared
\* rows with |spend_diff| > 0.01, |conversions_diff| > 0, |cac_diff| > 0.0001
\* or |roas_diff| > 0.0001, and details holds exactly those rows.
C13_MismatchIncludesRatios ==
    (op = "validate_kpi_calculations" /\ ~ret.raised)
    => LET expected == SelectSeq(ValidationQuery(raw, kpi), SpecifiedMismatch)
       IN /\ ret.details = expected
          /\ ret.mismatches = Len(expected)

\* row i of the observed csv taken on its own: accepted, or rejected
RowValid(i) ==
    /\ args.file.rows[i].kind # "blank"
    /\ validate_ads_spend_record(args.file.rows[i]).error = None

RowInvalid(i) ==
    /\ args.file.rows[i].kind # "blank"
    /\ validate_ads_spend_record(args.file.rows[i]).error # None

\* C14: validation recovers at row level: the result of validating a file
\* has one valid record per row that is valid on its own and one error,
\* carrying the row's number and its own message, per row that is invalid on
\* its own, wherever in the file the invalid rows stand.
C14_RowLevelRecovery ==
    (op = "run_etl" /\ "validate_file" \in Steps /\ args.file.header_ok)
    => LET n == Len(args.file.rows)
           r == ret.result
           errs == r.validation_errors
       IN /\ r.valid_records = Cardinality({i \in 1..n : RowValid(i)})
          /\ r.invalid_records = Cardinality({i \in 1..n : RowInvalid(i)})
          /\ Len(errs) = r.invalid_records
          /\ {errs[k].row : k \in 1..Len(errs)}
                = {i + 1 : i \in {j \in 1..n : RowInvalid(j)}}
          /\ \A k \in 1..Len(errs) :
                errs[k].msg
                   = validate_ads_spend_record(
                         args.file.rows[errs[k].row - 1]).error

C14_Witness ==
    /\ op = "run_etl" /\ "validate_file" \in Steps /\ args.file.header_ok
    /\ \E i, j \in 1..Len(args.file.rows) :
          i < j /\ RowInvalid(i) /\ RowValid(j)
    /\ ret.result.valid_records >= 1
    /\ ret.result.invalid_records >= 1

\* C15: in the result of validating a file, total_processed is the number of
\* non-skipped rows, len(valid_records) + len(invalid_records): a row skipped
\* as fully empty is not counted and does not lower the success rate.
C15_TotalExcludesSkipped ==
    (op = "run_etl" /\ "validate_file" \in Steps)
    => LET r == ret.result
           blanks == {i \in 1..Len(args.file.rows) :
                         args.file.rows[i].kind = "blank"}
       IN /\ r.total_records_read = r.valid_records + r.invalid_records
          /\ (blanks # {} /\ r.invalid_records = 0 /\ r.valid_records >= 1
                 /\ args.validation_threshold <= 100)
                => "transform_records" \in Steps

\* ------------------------------------------------------------------------
\* The functions taken alone
\* ------------------------------------------------------------------------
\* rows handed to validate_ads_spend_record: every combination of a kind with
\* passing and failing values for each business rule
RecordInputs ==
    { [Row(kind, d, p, "AcctA", dev, sp, m[1], m[2], m[3])
          EXCEPT !.country = c] :
        kind \in {"data", "malformed", "missing"}, d \in {1, Today + 1},
        p \in {"Meta", "TikTok"}, dev \in {"Desktop", "Tablet"},
        c \in {"US", "FR"}, sp \in {10000, SpendCeiling + 1},
        m \in {<<5, 100, 2>>, <<150, 100, 0>>, <<60, 100, 0>>,
               <<5, 100, 4>>} }

\* validate_ads_spend_record(record_data)
ValidateAdsSpendRecord ==
    /\ Idle
    /\ \E row \in RecordInputs :
          Record(TRUE, "validate_ads_spend_record", [row |-> row],
                 validate_ads_spend_record(row))
    /\ UNCHANGED <<raw, rawTable, kpi, kpiTable, clock>>

\* operands of the KPI formulas: cents and counts, negative, zero, positive
SpendInputs == {-500, 0, 1, 3333, 10000}
ConversionInputs == {-1, 0, 1, 2, 3}
RevenueInputs == {-10000, 0, 10000, 30000}

\* KPIEngine.compute_kpis_for_record(spend, conversions)
ComputeKpisForRecord ==
    /\ Idle
    /\ \E spend \in SpendInputs, conversions \in ConversionInputs :
          Record(TRUE, "compute_kpis_for_record",
                 [spend |-> spend, conversions |-> conversions],
                 compute_kpis_for_record(spend, conversions))
    /\ UNCHANGED <<raw, rawTable, kpi, kpiTable, clock>>

\* KPIEngine.calculate_cac(spend, conversions)
CalculateCac ==
    /\ Idle
    /\ \E spend \in SpendInputs, conversions \in ConversionInputs :
          Record(TRUE, "calculate_cac",
                 [spend |-> spend, conversions |-> conversions],
                 calculate_cac(spend, conversions))
    /\ UNCHANGED <<raw, rawTable, kpi, kpiTable, clock>>

\* KPIEngine.calculate_roas(revenue, spend)
CalculateRoas ==
    /\ Idle
    /\ \E revenue \in RevenueInputs, spend \in SpendInputs :
          Record(TRUE, "calculate_roas",
                 [revenue |-> revenue, spend |-> spend],
                 calculate_roas(revenue, spend))
    /\ UNCHANGED <<raw, rawTable, kpi, kpiTable, clock>>

\* KPIEngine.calculate_revenue(conversions)
CalculateRevenue ==
    /\ Idle
    /\ \E conversions \in ConversionInputs :
          Record(TRUE, "calculate_revenue", [conversions |-> conversions],
                 [revenue |-> calculate_revenue(conversions)])
    /\ UNCHANGED <<raw, rawTable, kpi, kpiTable, clock>>

\* validated records handed to transform_records
TransformInputs ==
    { <<>>,
      <<AdsSpendRecord(rowMetaA)>>,
      <<AdsSpendRecord(rowMetaA), AdsSpendRecord(rowGoogle)>>,
      <<AdsSpendRecord(rowMetaB), AdsSpendRecord(rowMetaA),
        AdsSpendRecord(rowMetaB)>> }

\* create_data_transformer(csv, batch_id).transform_records(records)
TransformRecords ==
    /\ Idle
    /\ \E records \in TransformInputs, file \in StoreFiles,
          b \in CallerBatchIds \cup {generate_batch_id(clock)} :
          Record(TRUE, "transform_records",
                 [records |-> records, file |-> file, batch_id |-> b],
                 [records |->
                     transform_records(DataTransformer(file, b, clock),
                                       records)])
    /\ UNCHANGED <<raw, rawTable, kpi, kpiTable, clock>>

\* pipeline runs whose transformation completes or raises
IngestTransformed ==
    RunEtlWith(StoreFiles, CallerBatchIds \cup {NoBatch}, {FALSE}, {95},
               {"none", "transform"})

NextPure ==
    \/ ValidateAdsSpendRecord
    \/ ComputeKpisForRecord
    \/ CalculateCac
    \/ CalculateRoas
    \/ CalculateRevenue
    \/ TransformRecords
    \/ IngestTransformed

SpecPure == Init /\ [][NextPure]_vars

\* the business rules in the order the specification gives them
RuleViolated(row) ==
    << row.platform \notin VALID_PLATFORMS,
       row.device \notin VALID_DEVICES,
       row.country \notin VALID_COUNTRIES,
       row.clicks > row.impressions,
       row.date > Today,
       row.spend > SpendCeiling,
       row.impressions > 0 /\ row.clicks * 100 > 50 * row.impressions,
       row.clicks > 0 /\ row.conversions * 100 > 50 * row.clicks >>

RuleMessage ==
    << "Invalid platform", "Invalid device", "Invalid country",
       "Clicks cannot exceed impressions", "Date cannot be in the future",
       "Spend amount seems unreasonably high",
       "Click rate seems unreasonably high",
       "Conversion rate seems unreasonably high" >>

\* C16: for every input row, malformed ones included, the record validator
\* returns either (record, None) or (None, non-empty error); a row that fails
\* schema validation gets a schema error whatever its values, and a row that
\* passes it gets the error of the first violated business rule in the order
\* platform, device, country, clicks <= impressions, date, spend ceiling,
\* click rate, conversion rate, or the record when no rule is violated.
C16_FirstViolatedRule ==
    op = "validate_ads_spend_record"
    => LET row == args.row
           broken == {i \in 1..Len(RuleMessage) : RuleViolated(row)[i]}
           first == CHOOSE i \in broken : \A j \in broken : i <= j
       IN /\ ret.error # ""
          /\ ret.error = None => ret.record = AdsSpendRecord(row)
          /\ ret.error # None => ret.record = None
          /\ row.kind # "data"
                => ret.error \in {"Validation error",
                                  "Unexpected validation error"}
          /\ (row.kind = "data" /\ broken = {}) => ret.error = None
          /\ (row.kind = "data" /\ broken # {})
                => ret.error = RuleMessage[first]

C16_Witness ==
    /\ op = "validate_ads_spend_record" /\ args.row.kind = "data"
    /\ RuleViolated(args.row)[4] /\ RuleViolated(args.row)[5]
    /\ RuleViolated(args.row)[6]
    /\ ~RuleViolated(args.row)[1] /\ ~RuleViolated(args.row)[2]
    /\ ~RuleViolated(args.row)[3]
    /\ ret.error = "Clicks cannot exceed impressions"

\* C17: compute_kpis_for_record sets has_errors exactly when conversions = 0
\* or spend = 0, with one note per zero operand, and still returns the
\* values: cac null, revenue 0 and roas 0 for conversions = 0 and spend > 0;
\* cac 0, roas null and revenue = conversions x rate for spend = 0 and
\* conversions > 0.
C17_DivisionByZeroNotes ==
    op = "compute_kpis_for_record"
    => LET spend == args.spend
           conversions == args.conversions
           zeros == (IF conversions = 0 THEN 1 ELSE 0)
                       + (IF spend = 0 THEN 1 ELSE 0)
       IN /\ ret.has_errors <=> (conversions = 0 \/ spend = 0)
          /\ Len(ret.error_messages) = zeros
          /\ ret.total_spend = spend /\ ret.total_conversions = conversions
          /\ (conversions = 0 /\ spend > 0)
                => /\ ret.cac = Null
                   /\ ret.revenue = 0
                   /\ ret.roas = Some(0)
          /\ (spend = 0 /\ conversions > 0)
                => /\ ret.cac = Some(0)
                   /\ ret.roas = Null
                   /\ ret.revenue
                         = conversions * revenue_per_conversion * 100

C17_Witness ==
    /\ op = "compute_kpis_for_record"
    /\ args.spend = 10000 /\ args.conversions = 0
    /\ ret.cac = Null /\ ret.revenue = 0 /\ ret.roas = Some(0)
    /\ ret.has_errors

\* C18: CAC is null for conversions <= 0 and is 0, as for spend 0, when
\* spend < 0 and conversions > 0; ROAS is null for spend <= 0 and is 0, as
\* for revenue 0, when revenue < 0 and spend > 0; revenue is 0 for negative
\* conversions; no KPI is negative.
C18_NegativeOperandsClamped ==
    /\ op = "calculate_cac"
       => /\ args.conversions <= 0 => ret = Null
          /\ (args.conversions > 0 /\ args.spend < 0)
                => (ret = Some(0) /\ ret = calculate_cac(0, args.conversions))
          /\ ~ret.null => ret.v >= 0
    /\ op = "calculate_roas"
       => /\ args.spend <= 0 => ret = Null
          /\ (args.spend > 0 /\ args.revenue < 0)
                => (ret = Some(0) /\ ret = calculate_roas(0, args.spend))
          /\ ~ret.null => ret.v >= 0
    /\ op = "calculate_revenue"
       => /\ args.conversions < 0
                => (ret.revenue = 0 /\ ret.revenue = calculate_revenue(0))
          /\ ret.revenue >= 0

C18_Witness ==
    /\ op = "calculate_cac"
    /\ args.spend < 0 /\ args.conversions > 0
    /\ ret = Some(0)

\* the raw rows of the observed call's date range
RowsInRange ==
    {r \in DOMAIN raw :
        /\ (args.start_date # NoDate => r.date >= args.start_date)
        /\ (args.end_date # NoDate => r.date <= args.end_date)}

\* a raw row belongs to the group of a KPI record: it agrees with it on
\* every dimension of the grouping
InGroupOf(m, r) == \A d \in SeqToSet(args.dimensions) : r[d] = m[d]

DataFields ==
    {"date", "platform", "account", "campaign", "country", "device",
     "spend", "clicks", "impressions", "conversions"}

\* C20: transform_records returns a list of the length and order of its
\* input whose element i copies the ten data fields of input i, every
\* element carrying the same load timestamp, source file name and batch id;
\* in a pipeline run that batch id is the run's result.batch_id, and a
\* transformation that raises loads nothing instead of a shorter list.
C20_TransformPreserves ==
    /\ op = "transform_records"
       => LET out == ret.records
          IN /\ Len(out) = Len(args.records)
             /\ \A i \in 1..Len(out) :
                   /\ \A f \in DataFields : out[i][f] = args.records[i][f]
                   /\ out[i].batch_id = args.batch_id
                   /\ out[i].source_file_name = args.file.name
                   /\ out[i].load_date = out[1].load_date
    /\ (op = "run_etl" /\ "insert_records" \in Steps)
       => LET added == raw (-) rawPre
          IN /\ BagCardinality(added)
                   = ret.result.valid_records - ret.result.records_failed
             /\ \A r \in BagToSet(added) :
                   /\ r.batch_id = ret.result.batch_id
                   /\ \A q \in BagToSet(added) : q.load_date = r.load_date
                   /\ r.source_file_name = args.file.name
                   /\ \E i \in 1..Len(args.file.rows) :
                         \A f \in DataFields : r[f] = args.file.rows[i][f]
    /\ (op = "run_etl" /\ args.env = "transform")
       => (raw = rawPre /\ ~ret.result.success)

C20_Witness ==
    /\ op = "transform_records"
    /\ Len(args.records) = 3 /\ Len(ret.records) = 3
    /\ args.records[1] # args.records[2]
    /\ ret.records[1].spend = args.records[1].spend
    /\ ret.records[3].batch_id = args.batch_id

C22_BatchInfoCountsBatch ==
    op = "get_batch_info"
    => /\ ~ret.found <=> CountBatch(raw, args.batch_id) = 0
       /\ ret.found => ret.info.record_count = CountBatch(raw, args.batch_id)

\* two runs that both asked for the existence check of one batch and file,
\* both got the answer False and both ended
BothSawNoBatch(p, q) ==
    /\ p # q
    /\ pipelines[p].pc = "Terminal" /\ pipelines[q].pc = "Terminal"
    /\ pipelines[p].skip_if_exists /\ pipelines[q].skip_if_exists
    /\ ~pipelines[p].exists /\ ~pipelines[q].exists
    /\ pipelines[p].batch_id = pipelines[q].batch_id
    /\ pipelines[p].file = pipelines[q].file

\* C23: the existence check is advisory: two run_etl invocations with one
\* caller-supplied batch id and skip_if_exists = True that both saw
\* check_batch_exists = False both load, so the batch holds its records twice
\* and both results report success; a run that saw True loads nothing.
C23_CheckIsAdvisory ==
    \A p, q \in Pipelines :
        /\ (BothSawNoBatch(p, q) /\ pipelines[p].result.valid_records > 0
               /\ pipelines[p].result.invalid_records = 0)
           => /\ pipelines[p].result.success /\ pipelines[q].result.success
              /\ pipelines[p].result.records_inserted
                    = pipelines[p].result.valid_records
              /\ CountBatch(raw, pipelines[p].batch_id)
                    = 2 * pipelines[p].result.valid_records
        /\ (pipelines[p].pc = "Terminal" /\ pipelines[p].exists)
           => pipelines[p].result.records_inserted = 0

\* both runs saw no batch, both loaded one.csv: its row is stored twice
C23_Witness ==
    /\ BothSawNoBatch(1, 2)
    /\ pipelines[1].file.name = "one.csv"
    /\ pipelines[1].result.success /\ pipelines[2].result.success
    /\ CountBatch(raw, pipelines[1].batch_id) = 2

\* the stages of run in the order of the source
StageOrder ==
    <<"validate_prerequisites", "_initialize_components", "check_batch_exists",
      "validate_file", "transform_records", "insert_records">>

StageIndex(name) == CHOOSE i \in 1..Len(StageOrder) : StageOrder[i] = name

\* the terminal outcomes of a run
TerminalOutcomes ==
    LET r == ret.result
    IN { o \in {"Success", "PartialSuccess", "SkippedExisting", "Failed"} :
           \/ o = "Success" /\ r.success /\ r.error_message = None
           \/ o = "PartialSuccess" /\ r.success /\ r.records_failed > 0
           \/ o = "SkippedExisting" /\ r.success
                /\ r.error_message = "Batch already exists, processing skipped"
           \/ o = "Failed" /\ ~r.success /\ r.error_message # None }

\* C24: every run_etl goes through its stages in the order prerequisites,
\* existence check, validation, transformation, load: the existence check is
\* made only after the prerequisites passed and before validation, the load
\* is entered only when the prerequisites passed, the batch was not skipped,
\* the validation rate met the threshold with at least one valid record and
\* every valid record was transformed, and the run ends in exactly one
\* terminal outcome.
C24_StageOrder ==
    op = "run_etl"
    => LET r == ret.result
           st == ret.steps
       IN /\ st # <<>> /\ st[1] = "validate_prerequisites"
          /\ \A i \in 1..Len(st) : \E k \in 1..Len(StageOrder) : st[i] = StageOrder[k]
          /\ \A i, j \in 1..Len(st) :
                i < j => StageIndex(st[i]) < StageIndex(st[j])
          /\ Len(st) > 1 => args.file.status = "ok"
          /\ "check_batch_exists" \in Steps
                => /\ args.skip_if_exists
                   /\ args.file.status = "ok"
          /\ ("validate_file" \in Steps /\ args.skip_if_exists)
                => "check_batch_exists" \in Steps
          /\ "transform_records" \in Steps => "validate_file" \in Steps
          /\ "insert_records" \in Steps
                => /\ args.file.status = "ok"
                   /\ "transform_records" \in Steps
                   /\ args.env # "transform"
                   /\ TerminalOutcomes # {"SkippedExisting"}
                   /\ r.valid_records >= 1
                   /\ r.valid_records * 100
                         >= args.validation_threshold * r.total_records_read
          /\ r.end_time # NoTime
          /\ Cardinality(TerminalOutcomes) = 1

\* a run that was asked for the existence check and went through every stage
C24_Witness ==
    /\ op = "run_etl"
    /\ ret.steps = StageOrder
    /\ ret.result.success
    /\ ret.result.records_inserted > 0

\* C25: every error message of the per-record fallback names its record by
\* the position the record has in the list passed to insert_records, also
\* when earlier records of the list were dropped as preparation failures.
C25_ErrorsNameOriginalPosition ==
    op = "insert_records"
    => \A k \in 1..Len(ret.errors) :
          ret.errors[k].phase = "insert"
          => /\ ret.errors[k].record \in 1..Len(args.records)
             /\ Preparable(args.records[ret.errors[k].record])
             /\ ~StoreAccepts(rawTable, args.records[ret.errors[k].record])

\* C26: aggregate_raw_data_to_kpis given a dimensions list with names outside
\* {date, platform, account, campaign, country, device} drops those names and
\* aggregates over the remaining ones instead of failing.
C26_InvalidDimensionsDropped ==
    (op = "aggregate_raw_data_to_kpis" /\ rawTable # "absent")
    => LET valid == SelectSeq(args.dimensions,
                              LAMBDA d : d \in SeqToSet(Dimensions))
       IN valid # <<>>
          => /\ ~ret.raised
             /\ ret.kpi_metrics
                   = aggregate_raw_data_to_kpis(raw, rawTable, args.start_date,
                                                args.end_date, valid,
                                                clock).kpi_metrics

\* C27: every result of run has valid_records + invalid_records <=
\* total_records_read and records_inserted <= valid_records; when the load
\* stage ran, records_inserted + records_failed = valid_records and there is
\* one insertion error per failed record; when the run was skipped or failed
\* before the load, records_inserted = records_failed = 0.
C27_ResultCounts ==
    op = "run_etl"
    => LET r == ret.result
       IN /\ r.valid_records + r.invalid_records <= r.total_records_read
          /\ r.records_inserted <= r.valid_records
          /\ "insert_records" \in Steps
                => /\ r.records_inserted + r.records_failed = r.valid_records
                   /\ Len(r.insertion_errors) = r.records_failed
          /\ "insert_records" \notin Steps
                => /\ r.records_inserted = 0
                   /\ r.records_failed = 0
                   /\ r.insertion_errors = <<>>

\* a load that inserted one record and failed on another, after a validation
\* that also rejected or skipped nothing
C27_Witness ==
    /\ op = "run_etl"
    /\ "insert_records" \in Steps
    /\ ret.result.records_inserted = 1
    /\ ret.result.records_failed = 1
    /\ ret.result.valid_records = 2
    /\ Len(ret.result.insertion_errors) = 1

\* run_etl on the file of the observed dry_run, with a batch id that has no
\* rows, gets past the validation stage
RunPassesValidation(validation_threshold) ==
    \A b \in CallerBatchIds \cup {generate_batch_id(clock)} :
    \A skip_if_exists \in BOOLEAN :
        CountBatch(raw, b) = 0
        => "transform_records"
              \in SeqToSet(run(raw, rawTable, clock, args.file, b,
                               skip_if_exists, validation_threshold, "none",
                               TRUE).steps)

\* C28, first half: dry_run reports ready_for_processing = true exactly when
\* validation produced no error and at least one valid record.
C28_ReadyIffCleanValidation ==
    op = "dry_run"
    => (ret.ready_for_processing
         <=> /\ ret.error = None
             /\ validate_csv_file(args.file).errors = <<>>
             /\ ret.valid > 0)

\* C28: dry_run reports ready_for_processing = true exactly when validation
\* produced no error and at least one valid record, and whenever it reports
\* true, run_etl on the same file with a batch id that has no rows and any
\* threshold up to 100 passes the validation stage.
C28_ReadyMeansRunValidates ==
    /\ C28_ReadyIffCleanValidation
    /\ (op = "dry_run" /\ ret.ready_for_processing)
       => \A validation_threshold \in Thresholds :
             RunPassesValidation(validation_threshold)

\* C29: run_etl never deletes or replaces raw rows: with skip_if_exists =
\* False on a batch id that already has rows, and with skip_if_exists = True
\* when the existence query raised, the run appends its inserted rows, so the
\* batch's row count after the run is its count before plus records_inserted.
C29_RunOnlyAppends ==
    op = "run_etl"
    => /\ rawPre \sqsubseteq raw
       /\ (CountBatch(rawPre, args.batch_id) > 0
              /\ (~args.skip_if_exists \/ args.env = "check_query"))
          => CountBatch(raw, args.batch_id)
                = CountBatch(rawPre, args.batch_id)
                     + ret.result.records_inserted

\* the (date, platform) pairs of the raw store and of the KPI store
RawPairs == {<<r.date, r.platform>> : r \in DOMAIN raw}

KpiPairs == {<<m.date, m.platform>> : m \in kpi}

====
